---- MODULE Spec2Model ----
(***************************************************************************)
(* The invoicing application: the SQLite store of src/lib/db.ts, the       *)
(* loaders and route actions of src/routes/index.tsx, and the page's      *)
(* in-progress invoice state.                                              *)
(*                                                                         *)
(* Money.  Prices are whole currency units and tax rates whole percents;   *)
(* every amount (totalAmount, subtotal, totalTax) is carried in units of   *)
(* 1/Scale of the currency unit, so that `tax / 100` is exact.  The        *)
(* rounding of IEEE-754 doubles is not modelled.                           *)
(***************************************************************************)
EXTENDS Integers, Sequences, FiniteSets, TLC

\* ------------------------------------------------------------------ bounds
MaxProducts == 2
MaxInvoices == 2
MaxQuantity == 2

\* `item.tax / 100`
Scale == 100

\* ------------------------------------------------------------------ state
VARIABLES
    customers,          \* table customers, in rowid order
    products,           \* table products, in rowid order
    invoices,           \* table invoices, in rowid order
    invoice_items,      \* table invoice_items, in rowid order
    journal,            \* the open transaction's rollback journal: the tables at BEGIN
    tx,                 \* the running create-invoice handler
    now,                \* the server's clock (new Date())
    response,           \* what the last command gave its caller, and what it logged
    activeTab,          \* page: activeTab.value
    invoiceView,        \* page: invoiceView.value
    invoiceState,       \* page: invoiceState (customer, items)
    actionValue,        \* page: createInvoiceAction.value
    taskPending         \* page: the tracked task has a change of actionValue to run on

store == <<customers, products, invoices, invoice_items>>
server == <<journal, tx, now, response>>
page == <<activeTab, invoiceView, invoiceState, actionValue, taskPending>>
vars == <<customers, products, invoices, invoice_items, journal, tx, now, response,
          activeTab, invoiceView, invoiceState, actionValue, taskPending>>

\* ------------------------------------------------------------- JavaScript values
\* A JavaScript value a quantity can be: a number, NaN, or null.
Num(n) == [t |-> "number", v |-> n]
NaN == [t |-> "NaN", v |-> 0]
Null == [t |-> "null", v |-> 0]

IsNum(x) == x.t = "number"

\* ToNumber: null is 0, NaN stays NaN.
ToNumber(x) == IF x.t = "null" THEN Num(0) ELSE x

\* a * b and a + b on numbers: NaN if either operand is NaN.
JsMul(a, b) ==
    LET x == ToNumber(a)
        y == ToNumber(b)
    IN  IF IsNum(x) /\ IsNum(y) THEN Num(x.v * y.v) ELSE NaN

JsAdd(a, b) ==
    LET x == ToNumber(a)
        y == ToNumber(b)
    IN  IF IsNum(x) /\ IsNum(y) THEN Num(x.v + y.v) ELSE NaN

\* ------------------------------------------------------------------ totals
\* totalStep with the tax left out of the sum
totalStepNoTax(acc, item) ==
    JsAdd(acc, JsMul(JsMul(Num(item.price), item.quantity), Num(Scale)))

\* One step of the reduce of useCreateInvoiceAction:
\*   itemTotal = item.price * item.quantity; taxAmount = itemTotal * (item.tax / 100);
\*   acc + itemTotal + taxAmount          (acc and the result in 1/Scale units)
totalStep(acc, item) ==
    LET itemTotal == JsMul(Num(item.price), item.quantity)
        taxAmount == JsMul(itemTotal, Num(item.tax))
    IN  JsAdd(JsAdd(acc, JsMul(itemTotal, Num(Scale))), taxAmount)

RECURSIVE reduceTotal(_, _)
reduceTotal(acc, items) ==
    IF items = <<>> THEN acc
    ELSE reduceTotal(totalStep(acc, Head(items)), Tail(items))

\* const totalAmount = items.reduce(..., 0)
totalAmount(items) == reduceTotal(Num(0), items)

\* InvoiceCreation: subtotal = reduce(acc + item.price * item.quantity, 0)
RECURSIVE reduceSubtotal(_, _)
reduceSubtotal(acc, items) ==
    IF items = <<>> THEN acc
    ELSE reduceSubtotal(
            JsAdd(acc, JsMul(JsMul(Num(Head(items).price), Head(items).quantity), Num(Scale))),
            Tail(items))

\* a subtotal that forgets the quantities
RECURSIVE sumPrices(_, _)
sumPrices(acc, items) ==
    IF items = <<>> THEN acc
    ELSE sumPrices(JsAdd(acc, JsMul(Num(Head(items).price), Num(Scale))), Tail(items))

subtotalOfPrices(items) == sumPrices(Num(0), items)

subtotal(items) == reduceSubtotal(Num(0), items)

\* InvoiceCreation: totalTax = reduce(acc + item.price * item.quantity * (item.tax / 100), 0)
RECURSIVE reduceTotalTax(_, _)
reduceTotalTax(acc, items) ==
    IF items = <<>> THEN acc
    ELSE reduceTotalTax(
            JsAdd(acc, JsMul(JsMul(Num(Head(items).price), Head(items).quantity),
                             Num(Head(items).tax))),
            Tail(items))

totalTax(items) == reduceTotalTax(Num(0), items)

\* The summary row "Total": subtotal + totalTax
previewTotal(items) == JsAdd(subtotal(items), totalTax(items))

\* ------------------------------------------------------------------ JSON
\* A JSON text is modelled by what it parses to: an array of items, the text
\* "null", or a text that is not JSON at all.
JsonArray(elems) == [kind |-> "array", elems |-> elems]
JsonNull == [kind |-> "null", elems |-> <<>>]
NotJson == [kind |-> "malformed", elems |-> <<>>]

\* JSON.stringify of one value: NaN is written as null.
stringifyValue(x) == IF x.t = "NaN" THEN Null ELSE x

\* JSON.stringify(invoiceState.items)
JSONstringify(items) ==
    JsonArray([i \in 1..Len(items) |->
        [items[i] EXCEPT !.quantity = stringifyValue(items[i].quantity)]])

\* JSON.parse(data.itemsJSON) followed by items.reduce: the error thrown, or "none".
parseError(text) ==
    CASE text.kind = "malformed" -> "SyntaxError"
      [] text.kind = "null" -> "TypeError"
      [] OTHER -> "none"

JSONparse(text) == text.elems

\* parseInt((e.target as HTMLInputElement).value, 10)
parseInt(s) ==
    CASE s = "" -> NaN
      [] s = "0" -> Num(0)
      [] s = "-1" -> Num(-1)
      [] s = "1.5" -> Num(1)

\* ------------------------------------------------------------------ schema
\* a connection that never turned foreign keys on
foreign_keys_off == FALSE

\* PRAGMA foreign_keys = ON
foreign_keys == TRUE

Ids(table) == {table[i].id : i \in 1..Len(table)}

\* INTEGER PRIMARY KEY AUTOINCREMENT; no row is ever deleted, and a rollback
\* restores sqlite_sequence with the rest
lastInsertRowid(table) == Len(table) + 1

\* a phone column without UNIQUE
phoneUnchecked(table, phone) == TRUE

\* customers.phone TEXT NOT NULL UNIQUE
phoneUnique(table, phone) == \A i \in 1..Len(table) : table[i].phone # phone

\* INSERT INTO customers: the constraint it fails, or "none"
insertCustomerError(table, phone) ==
    IF phoneUnique(table, phone) THEN "none" ELSE "SQLITE_CONSTRAINT_UNIQUE"

\* INSERT INTO invoices: totalAmount REAL NOT NULL (NaN binds as NULL), then
\* FOREIGN KEY (customerId) REFERENCES customers (id)
insertInvoiceError(custs, customerId, total) ==
    IF ~IsNum(total) THEN "SQLITE_CONSTRAINT_NOTNULL"
    ELSE IF foreign_keys /\ customerId \notin Ids(custs) THEN "SQLITE_CONSTRAINT_FOREIGNKEY"
    ELSE "none"

\* INSERT INTO invoice_items: quantity INTEGER NOT NULL, then
\* FOREIGN KEY (invoiceId) REFERENCES invoices (id), FOREIGN KEY (productId) REFERENCES products (id)
insertItemError(invs, prods, invoiceId, item) ==
    IF item.quantity.t # "number" THEN "SQLITE_CONSTRAINT_NOTNULL"
    ELSE IF foreign_keys /\ (invoiceId \notin Ids(invs) \/ item.id \notin Ids(prods))
         THEN "SQLITE_CONSTRAINT_FOREIGNKEY"
    ELSE "none"

Tables ==
    [customers |-> customers, products |-> products,
     invoices |-> invoices, invoice_items |-> invoice_items]

NoJournal ==
    [open |-> FALSE, customers |-> <<>>, products |-> <<>>,
     invoices |-> <<>>, invoice_items |-> <<>>]

\* BEGIN: the journal keeps the tables as they were
begin(T) == [open |-> TRUE] @@ T

\* rollback that leaves the rows the failed transaction wrote
rollbackNothing(T, j) == T

\* ROLLBACK: the tables are restored from the journal
rollback(T, j) ==
    [customers |-> j.customers, products |-> j.products,
     invoices |-> j.invoices, invoice_items |-> j.invoice_items]

\* a reader that sees the rows of a transaction still running
ObservedUncommitted == Tables

\* What a reader on another connection sees: until COMMIT, the tables as they
\* were at BEGIN
Observed ==
    IF journal.open
    THEN [customers |-> journal.customers, products |-> journal.products,
          invoices |-> journal.invoices, invoice_items |-> journal.invoice_items]
    ELSE Tables

\* ------------------------------------------------------------------ inputs
\* Form data of add-customer (after zod: name and phone are non-empty)
CustomerInputs ==
    {[name |-> "b", phone |-> "p1"], [name |-> "a", phone |-> "p2"],
     [name |-> "a", phone |-> "p1"]}

\* Form data of add-product (after zod: price >= 0, tax >= 0)
ProductInputs ==
    {[name |-> "a", price |-> 2, tax |-> 10], [name |-> "a", price |-> 3, tax |-> 0]}

\* Items a request can carry in itemsJSON: the server takes id, quantity, price
\* and tax as the client gives them
Item1 == [id |-> 1, name |-> "a", price |-> 5, tax |-> 10, quantity |-> Num(2)]
Item2 == [id |-> 2, name |-> "a", price |-> 3, tax |-> 0, quantity |-> Num(1)]

\* itemsJSON of a request (after zod: a string of at least one character)
JsonInputs ==
    {JsonArray(<<>>), JsonArray(<<Item1>>), JsonArray(<<Item1, Item2>>), JsonNull, NotJson}

\* customerId of a request (after zod: coerced to a number; "" coerces to 0)
CustomerIdInputs == 0..2

\* The instants new Date() can give: time does not run backwards, and two
\* invoices can share an instant (toISOString has millisecond resolution)
Instants == 0..1

\* ------------------------------------------------------------------ responses
NoResponse ==
    [cmd |-> "", status |-> "none", success |-> "undefined", error |-> "", logged |-> ""]

\* the caller waits for the handler
Pending(cmd) ==
    [cmd |-> cmd, status |-> "pending", success |-> "undefined", error |-> "", logged |-> ""]

\* the handler returned: undefined, or { success, error }; logged is what it
\* gave console.error
Returned(cmd, success, error, logged) ==
    [cmd |-> cmd, status |-> "returned", success |-> success, error |-> error,
     logged |-> logged]

\* the handler threw: nothing in it caught the error
Threw(cmd, error) ==
    [cmd |-> cmd, status |-> "threw", success |-> "undefined", error |-> error,
     logged |-> ""]

\* invoiceState.customer = null
NoCustomer == [id |-> 0, name |-> "", phone |-> ""]

IdleTx ==
    [pc |-> "idle", src |-> "", customerId |-> 0, items |-> <<>>, totalAmount |-> Num(0),
     invoiceId |-> 0, k |-> 0, error |-> "none"]

\* ------------------------------------------------------------------ commands
\* useAddCustomerAction: the INSERT runs outside any try
AddCustomer(data) ==
    /\ tx.pc = "idle"
    /\ LET err == insertCustomerError(customers, data.phone)
       IN  IF err # "none"
           THEN /\ response' = Threw("addCustomer", err)
                /\ UNCHANGED customers
           ELSE /\ customers' = Append(customers,
                        [id |-> lastInsertRowid(customers), name |-> data.name,
                         phone |-> data.phone])
                /\ response' = Returned("addCustomer", "undefined", "", "")
    /\ UNCHANGED <<products, invoices, invoice_items, journal, tx, now, page>>

\* useAddProductAction
AddProduct(data) ==
    /\ tx.pc = "idle"
    /\ Len(products) < MaxProducts
    /\ products' = Append(products,
            [id |-> lastInsertRowid(products), name |-> data.name,
             price |-> data.price, tax |-> data.tax])
    /\ response' = Returned("addProduct", "undefined", "", "")
    /\ UNCHANGED <<customers, invoices, invoice_items, journal, tx, now, page>>

\* useCreateInvoiceAction up to the call of transaction(): JSON.parse and the
\* reduce run outside the try; then BEGIN
createInvoiceBegin(src, customerId, itemsJSON) ==
    /\ tx.pc = "idle"
    /\ IF parseError(itemsJSON) # "none"
       THEN /\ response' = Threw("createInvoice", parseError(itemsJSON))
            /\ UNCHANGED <<journal, tx, now>>
       ELSE /\ Len(invoices) < MaxInvoices
            /\ \E t \in Instants : t >= now /\ now' = t
            /\ journal' = begin(Tables)
            /\ tx' = [pc |-> "header", src |-> src, customerId |-> customerId,
                      items |-> JSONparse(itemsJSON),
                      totalAmount |-> totalAmount(JSONparse(itemsJSON)),
                      invoiceId |-> 0, k |-> 0, error |-> "none"]
            /\ response' = Pending("createInvoice")
    /\ UNCHANGED store

\* a request to the action's endpoint
PostCreateInvoice(customerId, itemsJSON) ==
    /\ createInvoiceBegin("post", customerId, itemsJSON)
    /\ UNCHANGED page

\* invoiceStmt.run(data.customerId, new Date().toISOString(), totalAmount)
InsertInvoice ==
    /\ tx.pc = "header"
    /\ LET err == insertInvoiceError(customers, tx.customerId, tx.totalAmount)
       IN  IF err # "none"
           THEN /\ tx' = [tx EXCEPT !.pc = "rollback", !.error = err]
                /\ UNCHANGED invoices
           ELSE /\ invoices' = Append(invoices,
                        [id |-> lastInsertRowid(invoices), customerId |-> tx.customerId,
                         createdAt |-> now, totalAmount |-> tx.totalAmount.v])
                /\ tx' = [tx EXCEPT !.pc = "items", !.k = 1,
                                    !.invoiceId = lastInsertRowid(invoices)]
    /\ UNCHANGED <<customers, products, invoice_items, journal, now, response, page>>

\* itemStmt.run(invoiceId, item.id, item.quantity, item.price, item.tax), for the next item
InsertItem ==
    /\ tx.pc = "items"
    /\ tx.k <= Len(tx.items)
    /\ LET item == tx.items[tx.k]
           err == insertItemError(invoices, products, tx.invoiceId, item)
       IN  IF err # "none"
           THEN /\ tx' = [tx EXCEPT !.pc = "rollback", !.error = err]
                /\ UNCHANGED invoice_items
           ELSE /\ invoice_items' = Append(invoice_items,
                        [id |-> lastInsertRowid(invoice_items), invoiceId |-> tx.invoiceId,
                         productId |-> item.id, quantity |-> item.quantity.v,
                         priceAtSale |-> item.price, taxAtSale |-> item.tax])
                /\ tx' = [tx EXCEPT !.k = tx.k + 1]
    /\ UNCHANGED <<customers, products, invoices, journal, now, response, page>>

\* createInvoiceAction.value changes: the tracked task is due
deliver(value) ==
    IF tx.src = "form"
    THEN /\ actionValue' = value
         /\ taskPending' = TRUE
         /\ UNCHANGED <<activeTab, invoiceView, invoiceState>>
    ELSE UNCHANGED page

\* the transaction function returned: COMMIT, and return { success: true }
Commit ==
    /\ tx.pc = "items"
    /\ tx.k > Len(tx.items)
    /\ journal' = NoJournal
    /\ tx' = IdleTx
    /\ response' = Returned("createInvoice", "true", "", "")
    /\ deliver("success")
    /\ UNCHANGED <<store, now>>

\* the transaction function threw: ROLLBACK, the catch logs the error and
\* returns { success: false, error: "Failed to save invoice." }
Rollback ==
    /\ tx.pc = "rollback"
    /\ LET T == rollback(Tables, journal)
       IN  /\ customers' = T.customers
           /\ products' = T.products
           /\ invoices' = T.invoices
           /\ invoice_items' = T.invoice_items
    /\ journal' = NoJournal
    /\ tx' = IdleTx
    /\ response' = Returned("createInvoice", "false", "Failed to save invoice.", tx.error)
    /\ deliver("failure")
    /\ UNCHANGED now

\* ------------------------------------------------------------------ loaders
\* The bytes of a name. The name columns are declared TEXT with no COLLATE, so
\* ORDER BY name compares the UTF-8 bytes (collation BINARY): "B" sorts
\* before "a".
utf8(name) ==
    CASE name = "a" -> <<97>>
      [] name = "b" -> <<98>>
      [] name = "B" -> <<66>>
      [] OTHER -> <<>>

\* memcmp of two byte strings, then the shorter first: x sorts before y
RECURSIVE bytesBefore(_, _)
bytesBefore(x, y) ==
    IF y = <<>> THEN FALSE
    ELSE IF x = <<>> THEN TRUE
    ELSE IF Head(x) # Head(y) THEN Head(x) < Head(y)
    ELSE bytesBefore(Tail(x), Tail(y))

\* ORDER BY name
nameAsc(x, y) == bytesBefore(utf8(x.name), utf8(y.name))

\* an ORDER BY that sorts the earliest createdAt first
createdAtAsc(x, y) == x.createdAt < y.createdAt

\* ORDER BY i.createdAt DESC
createdAtDesc(x, y) == x.createdAt > y.createdAt

\* The sorter of ORDER BY: before[i][j] says that row i sorts before row j;
\* the rows come in that order, rows that compare equal in the order of the scan
sorter(rows, before) ==
    LET n == Len(rows)
        pos(i) == 1 + Cardinality({j \in 1..n :
                        \/ before[j][i]
                        \/ ~before[i][j] /\ j < i})
    IN  [k \in 1..n |-> rows[CHOOSE i \in 1..n : pos(i) = k]]

\* SELECT * FROM ... ORDER BY name
orderByName(rows) ==
    sorter(rows, [i \in 1..Len(rows) |-> [j \in 1..Len(rows) |-> nameAsc(rows[i], rows[j])]])

\* ... ORDER BY i.createdAt DESC
orderByCreatedAtDesc(rows) ==
    sorter(rows, [i \in 1..Len(rows) |-> [j \in 1..Len(rows) |->
                        createdAtDesc(rows[i], rows[j])]])

\* SELECT * FROM customers ORDER BY name
useCustomersLoader(T) == orderByName(T.customers)

\* SELECT * FROM products ORDER BY name
useProductsLoader(T) == orderByName(T.products)

\* a select list that reads the product's current price and tax
historyRowOfProduct(ii, p) ==
    [name |-> p.name, quantity |-> ii.quantity, price |-> p.price, tax |-> p.tax]

\* SELECT p.name, p.description, ii.quantity, ii.priceAtSale as price, ii.taxAtSale as tax
historyRow(ii, p) ==
    [name |-> p.name, quantity |-> ii.quantity, price |-> ii.priceAtSale,
     tax |-> ii.taxAtSale]

\* itemsStmt.all(invoice.id): FROM invoice_items ii JOIN products p ON
\* ii.productId = p.id WHERE ii.invoiceId = ?  (rows in rowid order)
RECURSIVE joinItems(_, _, _)
joinItems(T, invoiceId, n) ==
    IF n = 0 THEN <<>>
    ELSE LET ii == T.invoice_items[n]
             ps == {j \in 1..Len(T.products) : T.products[j].id = ii.productId}
         IN  IF ii.invoiceId = invoiceId /\ ps # {}
             THEN Append(joinItems(T, invoiceId, n - 1),
                         historyRow(ii, T.products[CHOOSE j \in ps : TRUE]))
             ELSE joinItems(T, invoiceId, n - 1)

itemsStmt(T, invoiceId) == joinItems(T, invoiceId, Len(T.invoice_items))

\* FROM invoices i JOIN customers c ON i.customerId = c.id: an invoice whose
\* customerId is no customer's id gives no row
RECURSIVE joinCustomers(_, _)
joinCustomers(T, n) ==
    IF n = 0 THEN <<>>
    ELSE LET i == T.invoices[n]
             cs == {j \in 1..Len(T.customers) : T.customers[j].id = i.customerId}
         IN  IF cs # {}
             THEN Append(joinCustomers(T, n - 1),
                         [id |-> i.id, customerId |-> i.customerId,
                          createdAt |-> i.createdAt, totalAmount |-> i.totalAmount,
                          customerName |-> T.customers[CHOOSE j \in cs : TRUE].name])
             ELSE joinCustomers(T, n - 1)

\* useInvoicesLoader: the joined rows ORDER BY i.createdAt DESC, each with
\* the rows of itemsStmt
useInvoicesLoader(T) ==
    LET rows == orderByCreatedAtDesc(joinCustomers(T, Len(T.invoices)))
    IN  [k \in 1..Len(rows) |->
            [id |-> rows[k].id, customerId |-> rows[k].customerId,
             createdAt |-> rows[k].createdAt, totalAmount |-> rows[k].totalAmount,
             customerName |-> rows[k].customerName,
             items |-> itemsStmt(T, rows[k].id)]]

\* ------------------------------------------------------------------ the page
\* The page's handlers run between requests: a submitted form is answered,
\* and the tracked task has run, before the next event is handled.
PageIdle == tx.pc = "idle" /\ ~taskPending

\* what the user can type into a quantity input
QuantityStrings == {"", "0", "-1", "1.5"}

\* the tabs
SetTab(tab) ==
    /\ PageIdle
    /\ activeTab' = tab
    /\ UNCHANGED <<store, server, invoiceView, invoiceState, actionValue, taskPending>>

\* the sub-tabs "Create New Invoice" and "Invoice History"
SetView(view) ==
    /\ PageIdle
    /\ activeTab = "invoices"
    /\ invoiceView' = view
    /\ UNCHANGED <<store, server, activeTab, invoiceState, actionValue, taskPending>>

\* selectCustomer, on a customer found by phone in the customers tab
selectCustomer(customer) ==
    /\ PageIdle
    /\ activeTab = "customers"
    /\ invoiceState' = [invoiceState EXCEPT !.customer = customer]
    /\ activeTab' = "products"
    /\ UNCHANGED <<store, server, invoiceView, actionValue, taskPending>>

\* existingItem.quantity++
increment(q) == IF IsNum(q) THEN Num(q.v + 1) ELSE NaN

\* addToInvoice, on a row of the product list
addToInvoice(product) ==
    /\ PageIdle
    /\ activeTab = "products"
    /\ LET items == invoiceState.items
           existing == {i \in 1..Len(items) : items[i].id = product.id}
       IN  IF existing # {}
           THEN LET i == CHOOSE i \in existing : \A j \in existing : i <= j
                IN  /\ IsNum(items[i].quantity) => items[i].quantity.v < MaxQuantity
                    /\ invoiceState' = [invoiceState EXCEPT
                            !.items[i].quantity = increment(items[i].quantity)]
           ELSE invoiceState' = [invoiceState EXCEPT
                    !.items = Append(items,
                        [id |-> product.id, name |-> product.name, price |-> product.price,
                         tax |-> product.tax, quantity |-> Num(1)])]
    /\ UNCHANGED <<store, server, activeTab, invoiceView, actionValue, taskPending>>

\* clearInvoiceState, the button "Change Customer"
clearInvoiceState ==
    /\ PageIdle
    /\ activeTab = "invoices" /\ invoiceView = "create"
    /\ invoiceState.customer # NoCustomer
    /\ invoiceState' = [customer |-> NoCustomer, items |-> <<>>]
    /\ activeTab' = "customers"
    /\ UNCHANGED <<store, server, invoiceView, actionValue, taskPending>>

\* onInput$ of the quantity input of row i
quantityInput(i, value) ==
    /\ PageIdle
    /\ activeTab = "invoices" /\ invoiceView = "create"
    /\ i \in 1..Len(invoiceState.items)
    /\ invoiceState' = [invoiceState EXCEPT !.items[i].quantity = parseInt(value)]
    /\ UNCHANGED <<store, server, activeTab, invoiceView, actionValue, taskPending>>

\* the button "Remove" of row i
removeItem(i) ==
    /\ PageIdle
    /\ activeTab = "invoices" /\ invoiceView = "create"
    /\ i \in 1..Len(invoiceState.items)
    /\ invoiceState' = [invoiceState EXCEPT
            !.items = SelectSeq(invoiceState.items,
                                LAMBDA it : it.id # invoiceState.items[i].id)]
    /\ UNCHANGED <<store, server, activeTab, invoiceView, actionValue, taskPending>>

\* the button "Save Invoice": disabled without a customer or without items
SubmitForm ==
    /\ PageIdle
    /\ activeTab = "invoices" /\ invoiceView = "create"
    /\ invoiceState.customer # NoCustomer
    /\ Len(invoiceState.items) > 0
    /\ createInvoiceBegin("form", invoiceState.customer.id, JSONstringify(invoiceState.items))
    /\ UNCHANGED page

\* a task that resets the form on any result, successful or not
resetTaskOnAnyResult ==
    /\ taskPending
    /\ taskPending' = FALSE
    /\ invoiceState' = [customer |-> NoCustomer, items |-> <<>>]
    /\ invoiceView' = "history"
    /\ UNCHANGED <<store, server, activeTab, actionValue>>

\* useTask$ tracking createInvoiceAction.value
resetTask ==
    /\ taskPending
    /\ taskPending' = FALSE
    /\ IF actionValue = "success"
       THEN /\ invoiceState' = [customer |-> NoCustomer, items |-> <<>>]
            /\ invoiceView' = "history"
       ELSE UNCHANGED <<invoiceState, invoiceView>>
    /\ UNCHANGED <<store, server, activeTab, actionValue>>

\* ------------------------------------------------------------------ the server
Init ==
    /\ customers = <<>>
    /\ products = <<>>
    /\ invoices = <<>>
    /\ invoice_items = <<>>
    /\ journal = NoJournal
    /\ tx = IdleTx
    /\ now = 0
    /\ response = NoResponse
    /\ activeTab = "invoices"
    /\ invoiceView = "create"
    /\ invoiceState = [customer |-> NoCustomer, items |-> <<>>]
    /\ actionValue = "undefined"
    /\ taskPending = FALSE

Next ==
    \/ \E data \in CustomerInputs : AddCustomer(data)
    \/ \E data \in ProductInputs : AddProduct(data)
    \/ \E customerId \in CustomerIdInputs, itemsJSON \in JsonInputs :
            PostCreateInvoice(customerId, itemsJSON)
    \/ InsertInvoice
    \/ InsertItem
    \/ Commit
    \/ Rollback

Spec == Init /\ [][Next]_vars

\* ------------------------------------------------------------------ the server, for the lists
\* Requests that fill the tables in orders other than those of the lists:
\* product names that sort before, after and equal to one another, and
\* invoices of no item or one
ListProductInputs == ProductInputs \cup {[name |-> "B", price |-> 2, tax |-> 10]}

ListJsonInputs == {JsonArray(<<>>), JsonArray(<<Item1>>)}

ListNext ==
    \/ \E data \in CustomerInputs : AddCustomer(data)
    \/ \E data \in ListProductInputs : AddProduct(data)
    \/ \E customerId \in CustomerIdInputs, itemsJSON \in ListJsonInputs :
            PostCreateInvoice(customerId, itemsJSON)
    \/ InsertInvoice
    \/ InsertItem
    \/ Commit
    \/ Rollback

ListSpec == Init /\ [][ListNext]_vars

\* ------------------------------------------------------------------ the page on a store with history
SeedCustomers == <<[id |-> 1, name |-> "b", phone |-> "p1"]>>

SeedProducts ==
    <<[id |-> 1, name |-> "a", price |-> 2, tax |-> 10],
      [id |-> 2, name |-> "a", price |-> 3, tax |-> 0]>>

\* earlier invoices of the seed customer, each of one unit of product 1: all
\* but one of the invoices the model has room for
SeedInvoices ==
    [i \in 1..(MaxInvoices - 1) |->
        [id |-> i, customerId |-> 1, createdAt |-> 0, totalAmount |-> 220]]

SeedInvoiceItems ==
    [i \in 1..(MaxInvoices - 1) |->
        [id |-> i, invoiceId |-> i, productId |-> 1, quantity |-> 1,
         priceAtSale |-> 2, taxAtSale |-> 10]]

PageInit ==
    /\ customers = SeedCustomers
    /\ products = SeedProducts
    /\ invoices = SeedInvoices
    /\ invoice_items = SeedInvoiceItems
    /\ journal = NoJournal
    /\ tx = IdleTx
    /\ now = 0
    /\ response = NoResponse
    /\ activeTab = "invoices"
    /\ invoiceView = "create"
    /\ invoiceState = [customer |-> NoCustomer, items |-> <<>>]
    /\ actionValue = "undefined"
    /\ taskPending = FALSE

PageNext ==
    \/ \E tab \in {"customers", "products", "invoices"} : SetTab(tab)
    \/ \E view \in {"create", "history"} : SetView(view)
    \/ \E i \in 1..Len(useCustomersLoader(Tables)) :
            selectCustomer(useCustomersLoader(Tables)[i])
    \/ \E i \in 1..Len(useProductsLoader(Tables)) :
            addToInvoice(useProductsLoader(Tables)[i])
    \/ clearInvoiceState
    \/ \E i \in 1..MaxProducts, value \in QuantityStrings : quantityInput(i, value)
    \/ \E i \in 1..MaxProducts : removeItem(i)
    \/ SubmitForm
    \/ InsertInvoice
    \/ InsertItem
    \/ Commit
    \/ Rollback
    \/ resetTask

PageSpec == PageInit /\ [][PageNext]_vars

\* ================================================================== claims
JournalTables ==
    [customers |-> journal.customers, products |-> journal.products,
     invoices |-> journal.invoices, invoice_items |-> journal.invoice_items]

\* the rows of invoice_items that hold the items of a submission, for invoice h
IsRowsOf(rows, h, items) ==
    /\ Len(rows) = Len(items)
    /\ \A k \in 1..Len(items) :
        /\ rows[k].invoiceId = h.id
        /\ rows[k].productId = items[k].id
        /\ IsNum(items[k].quantity) /\ rows[k].quantity = items[k].quantity.v
        /\ rows[k].priceAtSale = items[k].price
        /\ rows[k].taxAtSale = items[k].tax

NoOrphanItem ==
    \A i \in 1..Len(Observed.invoice_items) :
        Observed.invoice_items[i].invoiceId \in Ids(Observed.invoices)

\* what a reader sees changes either not at all in invoices and invoice_items,
\* or by one invoice together with one row per item of its submission
InvoiceAppearsWhole ==
    LET O == Observed
        P == Observed'
        n == Len(O.invoices)
        m == Len(O.invoice_items)
    IN  \/ P.invoices = O.invoices /\ P.invoice_items = O.invoice_items
        \/ /\ Len(P.invoices) = n + 1
           /\ SubSeq(P.invoices, 1, n) = O.invoices
           /\ SubSeq(P.invoice_items, 1, m) = O.invoice_items
           /\ IsRowsOf(SubSeq(P.invoice_items, m + 1, Len(P.invoice_items)),
                       P.invoices[n + 1], tx.items)

\* C1: in every state a reader can observe, whatever create-invoice attempts
\* succeeded, failed or are still running, no invoice_item row lacks its
\* invoice row, and an invoice row appears only together with exactly one
\* invoice_item row for each line item of its submission.
C1_AtomicInvoice == [](NoOrphanItem) /\ [][InvoiceAppearsWhole]_vars

\* C1 witness: a transaction is running, has written the header and the first
\* of two items, and the reader still sees none of it.
C1_Witness ==
    /\ tx.pc = "items" /\ tx.k = 2 /\ Len(tx.items) = 2
    /\ Len(invoices) = Len(Observed.invoices) + 1
    /\ Len(invoice_items) = Len(Observed.invoice_items) + 1

FailureLeavesStore ==
    /\ (tx.pc = "idle" /\ tx'.pc # "idle") => (journal'.open /\ JournalTables' = Tables)
    /\ (tx.pc # "idle" /\ tx'.pc # "idle") => journal' = journal
    /\ tx'.error # "none" => tx'.pc = "rollback"
    /\ tx.pc = "rollback" =>
        /\ tx'.pc = "idle"
        /\ response'.status = "returned"
        /\ response'.success = "false"
        /\ response'.error = "Failed to save invoice."
        /\ Tables' = JournalTables

\* C2: when an insert of a create-invoice attempt fails, at the header or at
\* any item, the command returns success = false with a message, and the four
\* tables are what they were when the attempt began.
C2_FailureRollsBack == [][FailureLeavesStore]_vars

\* C2 witness: a create-invoice has just failed on a store that already held
\* an invoice with its items.
C2_Witness ==
    /\ response.cmd = "createInvoice" /\ response.success = "false"
    /\ tx.pc = "idle"
    /\ invoice_items # <<>>

\* the sum over an invoice's rows of quantity * priceAtSale * (1 + taxAtSale / 100),
\* in 1/Scale units
RECURSIVE SumRows(_, _, _)
SumRows(rows, invoiceId, n) ==
    IF n = 0 THEN 0
    ELSE SumRows(rows, invoiceId, n - 1)
         + (IF rows[n].invoiceId = invoiceId
            THEN rows[n].quantity * rows[n].priceAtSale * (Scale + rows[n].taxAtSale)
            ELSE 0)

\* C3: every stored invoice's totalAmount is the sum over its invoice_item
\* rows of quantity * priceAtSale * (1 + taxAtSale / 100).
C3_TotalIsSumOfItems ==
    \A i \in 1..Len(Observed.invoices) :
        Observed.invoices[i].totalAmount =
            SumRows(Observed.invoice_items, Observed.invoices[i].id,
                    Len(Observed.invoice_items))

\* C3 witness: a stored invoice of two items, one of them taxed.
C3_Witness ==
    \E i \in 1..Len(Observed.invoices) :
        /\ Observed.invoices[i].totalAmount = 1400
        /\ Cardinality({k \in 1..Len(Observed.invoice_items) :
                Observed.invoice_items[k].invoiceId = Observed.invoices[i].id}) = 2

PreviewIsStored ==
    /\ (tx.pc = "idle" /\ tx'.pc = "header" /\ tx'.src = "form") =>
        LET shown == previewTotal(invoiceState.items)
        IN  IF IsNum(shown)
            THEN tx'.totalAmount = shown
            ELSE \E k \in 1..Len(tx'.items) : ~IsNum(tx'.items[k].quantity)
    /\ (tx.pc = "items" /\ tx'.pc = "idle" /\ tx.src = "form") =>
        /\ \A k \in 1..Len(tx.items) : IsNum(tx.items[k].quantity)
        /\ invoices' = invoices
        /\ invoices[tx.invoiceId].totalAmount = tx.totalAmount.v

\* C4: the total the invoice preview shows for the in-progress items,
\* subtotal + totalTax, is the totalAmount create-invoice computes for that
\* list when the form is submitted, and the one it stores when it commits; a
\* list whose preview is not a number (a quantity is NaN) is never stored.
C4_PreviewEqualsStored == [][PreviewIsStored]_vars

\* C4 witness: the form has just been saved with two items, and the stored
\* total is the total the preview still shows.
C4_Witness ==
    /\ actionValue = "success" /\ taskPending
    /\ Len(invoiceState.items) = 2
    /\ invoices[Len(invoices)].totalAmount = previewTotal(invoiceState.items).v
    /\ invoices[Len(invoices)].totalAmount > 0
    /\ invoiceState.items[1].tax + invoiceState.items[2].tax > 0

PhonesDistinct ==
    \A i, j \in 1..Len(customers) : customers[i].phone = customers[j].phone => i = j

DuplicatePhoneFails ==
    \A data \in CustomerInputs :
        ((\E i \in 1..Len(customers) : customers[i].phone = data.phone) /\ AddCustomer(data))
            => (response'.status = "threw" /\ customers' = customers)

\* C5: an add-customer whose phone is the phone of a customer in the store
\* fails and leaves the customers table unchanged, and no two customer rows
\* ever share a phone.
C5_PhoneUnique == [](PhonesDistinct) /\ [][DuplicatePhoneFails]_vars

\* C5 witness: an add-customer has just failed on the phone of one of two
\* stored customers.
C5_Witness ==
    /\ response.cmd = "addCustomer" /\ response.status = "threw"
    /\ response.error = "SQLITE_CONSTRAINT_UNIQUE"
    /\ Len(customers) = 2

\* C6: every failure of add-customer, add-product and create-invoice is
\* returned to the caller as a result with a success flag; none reaches the
\* caller as an exception.
C6_FailuresAreResults == response.status # "threw"

HistoryKeepsSale ==
    /\ Observed' # Observed =>
        \A id \in Ids(Observed.invoices) : itemsStmt(Observed', id) = itemsStmt(Observed, id)
    /\ (tx.pc = "items" /\ tx'.pc = "idle") =>
        LET got == itemsStmt(Observed', tx.invoiceId)
        IN  /\ Len(got) = Len(tx.items)
            /\ \A k \in 1..Len(tx.items) :
                got[k].price = tx.items[k].price /\ got[k].tax = tx.items[k].tax

\* C7: the price and tax the invoice-history query returns for the items of
\* an invoice are the ones submitted when it was created, and no later
\* command changes them, adding a product of the same name at another price
\* included.
C7_HistoryFrozen == [][HistoryKeepsSale]_vars

\* C7 witness: a product of the same name and another price has just been
\* added, and the history of an earlier invoice still shows the price of its
\* sale, which is neither product's price.
C7_Witness ==
    /\ response.cmd = "addProduct" /\ Len(products) = 2
    /\ products[1].name = products[2].name /\ products[1].price # products[2].price
    /\ \E id \in Ids(Observed.invoices) :
        /\ itemsStmt(Observed, id) # <<>>
        /\ \A k \in 1..Len(itemsStmt(Observed, id)) :
            /\ itemsStmt(Observed, id)[k].price # products[1].price
            /\ itemsStmt(Observed, id)[k].price # products[2].price

\* C8: every invoice create-invoice persists has at least one line item; a
\* submission of an empty list leaves no invoice row.
C8_InvoiceHasItems ==
    \A i \in 1..Len(Observed.invoices) :
        \E k \in 1..Len(Observed.invoice_items) :
            Observed.invoice_items[k].invoiceId = Observed.invoices[i].id

\* C9: every invoice_item row has a quantity of at least 1, and every stored
\* totalAmount is at least 0.
C9_QuantityPositive ==
    /\ \A k \in 1..Len(Observed.invoice_items) : Observed.invoice_items[k].quantity >= 1
    /\ \A i \in 1..Len(Observed.invoices) : Observed.invoices[i].totalAmount >= 0

ReferencesExist ==
    /\ \A i \in 1..Len(invoices) : invoices[i].customerId \in Ids(customers)
    /\ \A k \in 1..Len(invoice_items) :
        /\ invoice_items[k].invoiceId \in Ids(invoices)
        /\ invoice_items[k].productId \in Ids(products)

ConstraintErrors ==
    {"SQLITE_CONSTRAINT_FOREIGNKEY", "SQLITE_CONSTRAINT_NOTNULL", "SQLITE_CONSTRAINT_UNIQUE"}

MissingReferenceFails ==
    (/\ tx.pc # "idle" /\ tx'.pc = "idle"
     /\ \/ tx.customerId \notin Ids(customers)
        \/ \E k \in 1..Len(tx.items) : tx.items[k].id \notin Ids(products))
    => /\ response'.success = "false"
       /\ response'.logged \in ConstraintErrors
       /\ Tables' = JournalTables

\* C10: in every state each invoice's customerId is the id of a customer and
\* each invoice_item's invoiceId and productId are the ids of an invoice and
\* of a product; a create-invoice whose customerId or whose item's productId
\* is no row's id fails on a constraint and persists nothing.
C10_ReferentialIntegrity == [](ReferencesExist) /\ [][MissingReferenceFails]_vars

\* C10 witness: the customer exists, the header and the first item are
\* written, and the insert of the second item has failed on its productId.
C10_Witness ==
    /\ tx.pc = "rollback" /\ tx.error = "SQLITE_CONSTRAINT_FOREIGNKEY"
    /\ tx.customerId \in Ids(customers)
    /\ tx.k = 2 /\ tx.items[2].id \notin Ids(products)

\* a query's rows are the table's rows, each once
AllRows(rows, table) ==
    /\ Len(rows) = Len(table)
    /\ \A i \in 1..Len(table) : \E k \in 1..Len(rows) : rows[k] = table[i]

NameNonDecreasing(rows) ==
    \A i \in 1..Len(rows) : \A j \in (i + 1)..Len(rows) :
        ~bytesBefore(utf8(rows[j].name), utf8(rows[i].name))

InvoiceListComplete ==
    LET rows == useInvoicesLoader(Observed)
    IN  /\ Len(rows) = Len(Observed.invoices)
        /\ \A i \in 1..Len(Observed.invoices) : \E k \in 1..Len(rows) :
                /\ rows[k].id = Observed.invoices[i].id
                /\ rows[k].createdAt = Observed.invoices[i].createdAt

InvoiceListNewestFirst ==
    LET rows == useInvoicesLoader(Observed)
    IN  \A i \in 1..Len(rows) : \A j \in (i + 1)..Len(rows) :
            rows[i].createdAt >= rows[j].createdAt

\* C11: in every state of the store, the invoice list holds every invoice,
\* no row of it has a createdAt later than that of a row before it, and the
\* customer and product lists hold every row of their tables with no name
\* sorting before the name of a row before it.
C11_ListsOrdered ==
    /\ InvoiceListComplete
    /\ InvoiceListNewestFirst
    /\ AllRows(useCustomersLoader(Observed), Observed.customers)
    /\ NameNonDecreasing(useCustomersLoader(Observed))
    /\ AllRows(useProductsLoader(Observed), Observed.products)
    /\ NameNonDecreasing(useProductsLoader(Observed))

\* C11 witness: each table was filled in an order that is not the order of
\* its list: the second invoice is the later one, the second customer and
\* the second product have the name that sorts first.
C11_Witness ==
    /\ tx.pc = "idle"
    /\ Len(invoices) = 2 /\ invoices[1].createdAt < invoices[2].createdAt
    /\ useInvoicesLoader(Observed)[1].id = invoices[2].id
    /\ Len(customers) = 2 /\ customers[1].name = "b" /\ customers[2].name = "a"
    /\ useCustomersLoader(Observed)[1].id = customers[2].id
    /\ Len(products) = 2 /\ products[1].name = "a" /\ products[2].name = "B"
    /\ useProductsLoader(Observed)[1].id = products[2].id

\* while the form's submission runs, the page still holds what it submitted
SubmissionIsPageState ==
    (tx.pc # "idle" /\ tx.src = "form") =>
        /\ invoiceState.customer.id = tx.customerId
        /\ JSONparse(JSONstringify(invoiceState.items)) = tx.items

\* the answer to the form's submission changes nothing of the page but the
\* action's value, and makes the tracked task due
AnswerLeavesForm ==
    (tx.pc # "idle" /\ tx'.pc = "idle" /\ tx.src = "form") =>
        /\ response'.cmd = "createInvoice" /\ response'.status = "returned"
        /\ invoiceState' = invoiceState /\ invoiceView' = invoiceView
        /\ taskPending'

\* the task that runs on the answer resets the form if and only if the answer
\* is success; otherwise the Save button is enabled on the same invoice
TaskResetsOnSuccessOnly ==
    (taskPending /\ ~taskPending') =>
        IF response.success = "true"
        THEN /\ invoiceState'.customer = NoCustomer
             /\ invoiceState'.items = <<>>
             /\ invoiceView' = "history"
        ELSE /\ response.success = "false"
             /\ invoiceState' = invoiceState
             /\ invoiceState'.customer # NoCustomer /\ Len(invoiceState'.items) > 0
             /\ activeTab' = "invoices" /\ invoiceView' = "create"

\* C12: when the form's create-invoice submission returns success, the task
\* sets the selected customer to null, the item list to empty and the invoice
\* view to 'history'; when it returns success=false, the selected customer
\* and the item list stay as they were submitted and the form can be
\* submitted again.
C12_ResetOnSuccessOnly ==
    [](SubmissionIsPageState) /\ [][AnswerLeavesForm /\ TaskResetsOnSuccessOnly]_vars

\* C12 witness: the form's submission has failed (a quantity was not a
\* number), the task has run, and the page still holds the customer and the
\* two items it submitted.
C12_Witness ==
    /\ response.cmd = "createInvoice" /\ response.success = "false"
    /\ actionValue = "failure" /\ ~taskPending
    /\ invoiceState.customer # NoCustomer /\ Len(invoiceState.items) = 2
    /\ activeTab = "invoices" /\ invoiceView = "create"

\* the form's submission has succeeded, the task has run, and the form is
\* reset
C12_SuccessReset ==
    /\ response.cmd = "createInvoice" /\ response.success = "true"
    /\ actionValue = "success" /\ ~taskPending
    /\ invoiceState = [customer |-> NoCustomer, items |-> <<>>]
    /\ invoiceView = "history"
    /\ Len(invoices) = Len(SeedInvoices) + 1

====
